---- MODULE Spec2Model ----
(***************************************************************************)
(* Payslip generator: the batch packager process_file, the renderer        *)
(* draw_payslip_to_bytes and the two front ends that call them, the Flask  *)
(* upload handler generate_payslip (app.py) and the command line main      *)
(* (payslipGenerator.py).                                                  *)
(*                                                                         *)
(* Text is a sequence of one-character strings; column headers and aliases *)
(* are TLA+ strings.  Amounts are Python floats, kept here in thousandths  *)
(* (1234.5 is 1234500), so sums are exact and the two-decimal rounding of  *)
(* moneyfmt is visible.  Binary floating-point rounding is not modelled.   *)
(***************************************************************************)
EXTENDS Integers, Sequences, FiniteSets, TLC

\* Bounds of the model.
MaxRows == 2
MaxClock == 1

\* ------------------------------------------------------------------------
\* Python values held by cells of the table and by the data dictionary
\* ------------------------------------------------------------------------
\* A missing cell (pandas NaN), a float (in thousandths), a str, and None.
NaN == [t |-> "nan", v |-> 0, s |-> <<>>]
Num(v) == [t |-> "num", v |-> v, s |-> <<>>]
Str(s) == [t |-> "str", v |-> 0, s |-> s]
NoneVal == [t |-> "none", v |-> 0, s |-> <<>>]
EmptyStr == Str(<<>>)

Digits == <<"0", "1", "2", "3", "4", "5", "6", "7", "8", "9">>
IsDigit(c) == \E d \in 1..10 : Digits[d] = c
DigitVal(c) == (CHOOSE d \in 1..10 : Digits[d] = c) - 1
Abs(n) == IF n < 0 THEN 0 - n ELSE n

\* str.strip(): leading and trailing whitespace removed.
LStrip(s) ==
    IF \A i \in 1..Len(s) : s[i] = " " THEN <<>>
    ELSE LET k == CHOOSE i \in 1..Len(s) :
                      s[i] # " " /\ \A j \in 1..(i - 1) : s[j] = " "
         IN  SubSeq(s, k, Len(s))
RStrip(s) ==
    IF \A i \in 1..Len(s) : s[i] = " " THEN <<>>
    ELSE LET k == CHOOSE i \in 1..Len(s) :
                      s[i] # " " /\ \A j \in (i + 1)..Len(s) : s[j] = " "
         IN  SubSeq(s, 1, k)
Strip(s) == RStrip(LStrip(s))

\* str.replace(",", "")
RECURSIVE RemoveCommas(_)
RemoveCommas(s) ==
    IF s = <<>> THEN <<>>
    ELSE (IF Head(s) = "," THEN <<>> ELSE <<Head(s)>>) \o RemoveCommas(Tail(s))

\* str.split() without argument: the maximal runs of non-whitespace.
RECURSIVE Words(_)
Words(s) ==
    LET t == LStrip(s)
        n == IF \E i \in 1..Len(t) : t[i] = " "
             THEN (CHOOSE i \in 1..Len(t) :
                       t[i] = " " /\ \A j \in 1..(i - 1) : t[j] # " ") - 1
             ELSE Len(t)
    IN  IF t = <<>> THEN <<>>
        ELSE <<SubSeq(t, 1, n)>> \o Words(SubSeq(t, n + 1, Len(t)))

\* "_".join(parts)
RECURSIVE JoinUnderscore(_)
JoinUnderscore(parts) ==
    IF parts = <<>> THEN <<>>
    ELSE IF Len(parts) = 1 THEN parts[1]
    ELSE parts[1] \o <<"_">> \o JoinUnderscore(Tail(parts))

\* str(n) of a non-negative int.
RECURSIVE IntStr(_)
IntStr(n) ==
    IF n < 10 THEN <<Digits[n + 1]>>
    ELSE IntStr(n \div 10) \o <<Digits[(n % 10) + 1]>>

\* The fraction digits of str(float): thousandths without trailing zeros,
\* at least one digit.
FracStr(f) ==
    IF f % 100 = 0 THEN <<Digits[(f \div 100) + 1]>>
    ELSE IF f % 10 = 0
         THEN <<Digits[(f \div 100) + 1], Digits[((f \div 10) % 10) + 1]>>
         ELSE <<Digits[(f \div 100) + 1], Digits[((f \div 10) % 10) + 1],
                Digits[(f % 10) + 1]>>

\* str(val) of a float: 1234.5 -> "1234.5", 101.0 -> "101.0".
FloatStr(m) ==
    (IF m < 0 THEN <<"-">> ELSE <<>>)
        \o IntStr(Abs(m) \div 1000) \o <<".">> \o FracStr(Abs(m) % 1000)

\* str(val)
PyStr(val) ==
    CASE val.t = "str" -> val.s
      [] val.t = "num" -> FloatStr(val.v)
      [] val.t = "none" -> <<"N", "o", "n", "e">>
      [] OTHER -> <<"n", "a", "n">>

\* float(text): optional sign, digits with an optional point, surrounding
\* whitespace ignored; anything else raises ValueError.
Unsigned(s) == IF s # <<>> /\ s[1] \in {"+", "-"} THEN Tail(s) ELSE s
DotPos(b) ==
    IF \E i \in 1..Len(b) : b[i] = "."
    THEN CHOOSE i \in 1..Len(b) : b[i] = "." /\ \A j \in 1..(i - 1) : b[j] # "."
    ELSE 0
IntPart(b) == IF DotPos(b) = 0 THEN b ELSE SubSeq(b, 1, DotPos(b) - 1)
FracPart(b) == IF DotPos(b) = 0 THEN <<>> ELSE SubSeq(b, DotPos(b) + 1, Len(b))
AllDigits(s) == \A i \in 1..Len(s) : IsDigit(s[i])
IsFloatText(s) ==
    LET b == Unsigned(Strip(s))
    IN  /\ AllDigits(IntPart(b))
        /\ AllDigits(FracPart(b))
        /\ Len(IntPart(b)) + Len(FracPart(b)) > 0
RECURSIVE IntVal(_)
IntVal(ds) ==
    IF ds = <<>> THEN 0
    ELSE IntVal(SubSeq(ds, 1, Len(ds) - 1)) * 10 + DigitVal(ds[Len(ds)])
FracVal(fs) ==
    (IF Len(fs) >= 1 THEN DigitVal(fs[1]) * 100 ELSE 0)
        + (IF Len(fs) >= 2 THEN DigitVal(fs[2]) * 10 ELSE 0)
        + (IF Len(fs) >= 3 THEN DigitVal(fs[3]) ELSE 0)
FloatOf(s) ==
    LET t == Strip(s)
        b == Unsigned(t)
        mag == IntVal(IntPart(b)) * 1000 + FracVal(FracPart(b))
    IN  IF t # <<>> /\ t[1] = "-" THEN 0 - mag ELSE mag

\* ------------------------------------------------------------------------
\* Column mapping
\* ------------------------------------------------------------------------
COL_CANDIDATES ==
    [EmployeeName |-> <<"Employee Name", "EmployeeName", "Name">>,
     Ecode |-> <<"E code", "Ecode", "Emp Code", "ecode">>,
     Designation |-> <<"Designation">>,
     Department |-> <<"Department">>,
     FatherName |-> <<"Father / Husband Name", "FatherName", "Father">>,
     DOB |-> <<"DOB", "Date of Birth">>,
     Location |-> <<"Location">>,
     UAN |-> <<"UAN">>,
     ESI_No |-> <<"Esi No", "ESI No", "ESI_No">>,
     PAN_No |-> <<"PAN No", "PAN">>,
     DOJ |-> <<"DOJ", "Date of Joining">>,
     PaidDays |-> <<"Paid Days", "PaidDays">>,
     LOP |-> <<"LOP", "Loss of Pay">>,
     PayMode |-> <<"Pay Mode", "PayMode">>,
     BankName |-> <<"Bank name", "BankName">>,
     AccountNo |-> <<"Account No", "AccountNo">>,
     PL |-> <<"PL">>,
     SL |-> <<"SL">>,
     CL |-> <<"CL">>,
     Basic |-> <<"Basic">>,
     SpecialAllowance |-> <<"Special Allowance", "Special Allownace", "SpecialAllowance">>,
     TravelAllowance |-> <<"Travel Allowance", "TravelAllowance">>,
     HRA |-> <<"House Rent Allowance", "HRA">>,
     NH_FH |-> <<"NH/FH", "NH_FH">>,
     Reimbursement |-> <<"Reimbursement", "Reimbursement">>,
     EPF |-> <<"EPF">>,
     ESI |-> <<"ESI">>,
     PT |-> <<"PT">>,
     TDS |-> <<"TDS">>,
     Adv_Other |-> <<"Adv/Other", "Adv_Other", "Advance">>,
     LabourWelfareFund |-> <<"Labour Welfare Fund", "LabourWelfareFund">>]

Fields == DOMAIN COL_CANDIDATES

\* str.lower() on the header and alias spellings that occur.
Lower(s) ==
    CASE s = "Employee Name" -> "employee name"
      [] s = "EmployeeName" -> "employeename"
      [] s = "Name" -> "name"
      [] s = "E code" -> "e code"
      [] s = "Ecode" -> "ecode"
      [] s = "Emp Code" -> "emp code"
      [] s = "Designation" -> "designation"
      [] s = "Department" -> "department"
      [] s = "Father / Husband Name" -> "father / husband name"
      [] s = "FatherName" -> "fathername"
      [] s = "Father" -> "father"
      [] s = "DOB" -> "dob"
      [] s = "Date of Birth" -> "date of birth"
      [] s = "Location" -> "location"
      [] s = "UAN" -> "uan"
      [] s = "Esi No" -> "esi no"
      [] s = "ESI No" -> "esi no"
      [] s = "ESI_No" -> "esi_no"
      [] s = "PAN No" -> "pan no"
      [] s = "PAN" -> "pan"
      [] s = "DOJ" -> "doj"
      [] s = "Date of Joining" -> "date of joining"
      [] s = "Paid Days" -> "paid days"
      [] s = "PaidDays" -> "paiddays"
      [] s = "LOP" -> "lop"
      [] s = "Loss of Pay" -> "loss of pay"
      [] s = "Pay Mode" -> "pay mode"
      [] s = "PayMode" -> "paymode"
      [] s = "Bank name" -> "bank name"
      [] s = "BankName" -> "bankname"
      [] s = "Account No" -> "account no"
      [] s = "AccountNo" -> "accountno"
      [] s = "PL" -> "pl"
      [] s = "SL" -> "sl"
      [] s = "CL" -> "cl"
      [] s = "Basic" -> "basic"
      [] s = "Special Allowance" -> "special allowance"
      [] s = "Special Allownace" -> "special allownace"
      [] s = "SpecialAllowance" -> "specialallowance"
      [] s = "Travel Allowance" -> "travel allowance"
      [] s = "TravelAllowance" -> "travelallowance"
      [] s = "House Rent Allowance" -> "house rent allowance"
      [] s = "HRA" -> "hra"
      [] s = "NH/FH" -> "nh/fh"
      [] s = "NH_FH" -> "nh_fh"
      [] s = "Reimbursement" -> "reimbursement"
      [] s = "EPF" -> "epf"
      [] s = "ESI" -> "esi"
      [] s = "PT" -> "pt"
      [] s = "TDS" -> "tds"
      [] s = "Adv/Other" -> "adv/other"
      [] s = "Adv_Other" -> "adv_other"
      [] s = "Advance" -> "advance"
      [] s = "Labour Welfare Fund" -> "labour welfare fund"
      [] s = "LabourWelfareFund" -> "labourwelfarefund"
      [] s = "ECODE" -> "ecode"
      [] s = "E CODE" -> "e code"
      [] s = "NAME" -> "name"
      [] s = "BASIC" -> "basic"
      [] s = "Remarks" -> "remarks"
      [] s = "Epf" -> "epf"
      [] OTHER -> s

\* A column label of the loaded table: a str, or another type when the
\* header cell held a number.
Hdr(name) == [str |-> TRUE, name |-> name]
NumHdr(name) == [str |-> FALSE, name |-> name]

\* find_column returns None when no alias matches.
NoColumn == "<None>"

\* find_column: the dict comprehension keeps the last column of each
\* lower-cased spelling; the first alias found in it wins.
find_column_exact(df_cols, candidates) ==
    LET found == {c \in 1..Len(candidates) :
                     \E i \in 1..Len(df_cols) : df_cols[i].name = candidates[c]}
        first == CHOOSE c \in found : \A d \in found : c <= d
    IN  IF found = {} THEN NoColumn ELSE candidates[first]
find_column(df_cols, candidates) ==
    LET hit(key) == {i \in 1..Len(df_cols) : Lower(df_cols[i].name) = key}
        last(key) == CHOOSE i \in hit(key) : \A j \in hit(key) : j <= i
        found == {c \in 1..Len(candidates) : hit(Lower(candidates[c])) # {}}
        first == CHOOSE c \in found : \A d \in found : c <= d
    IN  IF found = {} THEN NoColumn
        ELSE df_cols[last(Lower(candidates[first]))].name

\* c.lower() raises AttributeError on a column label that is not a str.
find_column_raises(df_cols) == \E i \in 1..Len(df_cols) : ~df_cols[i].str

build_col_map(df) ==
    [key \in Fields |-> find_column(df.headers, COL_CANDIDATES[key])]

\* safe_val(row, colname, default): the cell under the mapped column, or
\* the default when the field is unresolved or the cell is missing.
ColIndex(headers, colname) ==
    CHOOSE i \in 1..Len(headers) : headers[i].name = colname
safe_val(headers, row, colname, default) ==
    IF colname = NoColumn THEN default
    ELSE LET val == row[ColIndex(headers, colname)]
         IN  IF val.t = "nan" THEN default ELSE val

\* What a call comes to: the value it returns, or an exception.
Returned(v) == [raised |-> FALSE, v |-> v]
Raised == [raised |-> TRUE, v |-> 0]

\* float(text): ValueError unless the text is a float literal.
float(s) == IF IsFloatText(s) THEN Returned(FloatOf(s)) ELSE Raised

\* to_number, the try block: a str loses its commas and its surrounding
\* whitespace and goes through float(v); any other value through float(val).
to_number_try(val) ==
    IF val.t = "str"
    THEN LET v == Strip(RemoveCommas(val.s))
         IN  IF v = <<>> THEN Returned(0) ELSE float(v)
    ELSE Returned(val.v)
\* to_number, the handler: except Exception: try: return float(str(val));
\* except: return 0.0
NoExcept(val) == Raised
to_number_except(val) ==
    LET o == float(PyStr(val)) IN IF o.raised THEN Returned(0) ELSE o
\* to_number as an outcome, and the value it returns.
to_number_call(val) ==
    IF val = NoneVal \/ val = EmptyStr THEN Returned(0)
    ELSE LET o == to_number_try(val)
         IN  IF o.raised THEN to_number_except(val) ELSE o
to_number(val) == to_number_call(val).v

\* moneyfmt: Decimal(str(val)) formatted ",.2f": rounded half-even to two
\* decimals, thousands grouped.
RoundHalfEven(m) ==
    LET q == m \div 10
        r == m % 10
    IN  IF r > 5 \/ (r = 5 /\ q % 2 = 1) THEN q + 1 ELSE q
RECURSIVE Group(_)
Group(ds) ==
    IF Len(ds) <= 3 THEN ds
    ELSE Group(SubSeq(ds, 1, Len(ds) - 3)) \o <<",">>
             \o SubSeq(ds, Len(ds) - 2, Len(ds))
moneyfmt(val) ==
    LET c == RoundHalfEven(Abs(val))
    IN  (IF val < 0 THEN <<"-">> ELSE <<>>)
            \o Group(IntStr(c \div 100)) \o <<".">>
            \o <<Digits[((c % 100) \div 10) + 1], Digits[(c % 10) + 1]>>

\* normalize_date: empty stays empty; the modelled tables hold no text that
\* dateutil parses, so any other value comes back as str(val).
normalize_date(val) ==
    IF val = NoneVal \/ val = EmptyStr THEN EmptyStr ELSE Str(PyStr(val))

\* ------------------------------------------------------------------------
\* Rendering
\* ------------------------------------------------------------------------
EarningKeys ==
    <<"Basic", "SpecialAllowance", "TravelAllowance", "HRA", "NH_FH",
      "Reimbursement">>
DeductionKeys == <<"EPF", "ESI", "PT", "TDS", "Adv_Other", "LabourWelfareFund">>
NumericKeys == EarningKeys \o DeductionKeys

\* sum([float(data.get(k, 0) or 0) for k in keys])
RECURSIVE SumKeys(_, _)
SumKeys(data, keys) ==
    IF keys = <<>> THEN 0 ELSE data[Head(keys)].v + SumKeys(data, Tail(keys))

Gross(data) == SumKeys(data, EarningKeys)
TotalDeductions(data) == SumKeys(data, DeductionKeys)
NetPayAdds(gross, total_ded) == gross + total_ded
NetPay(gross, total_ded) == gross - total_ded

\* The document draw_payslip_to_bytes returns, as the texts it draws.
draw_payslip_to_bytes(header_info, data) ==
    LET gross == Gross(data)
        total_ded == TotalDeductions(data)
        net == NetPay(gross, total_ded)
    IN  [month |-> PyStr(header_info.month),
         location |-> PyStr(header_info.location),
         name |-> PyStr(data["EmployeeName"]),
         ecode |-> PyStr(data["Ecode"]),
         earnings |-> [i \in 1..6 |-> moneyfmt(data[EarningKeys[i]].v)],
         gross |-> moneyfmt(gross),
         deductions |-> [i \in 1..6 |-> moneyfmt(data[DeductionKeys[i]].v)],
         total_ded |-> moneyfmt(total_ded),
         net |-> moneyfmt(net)]

\* ------------------------------------------------------------------------
\* Row normalisation inside process_file
\* ------------------------------------------------------------------------
\* row.isnull().all()
NeverBlank(row) == FALSE
RowIsBlank(row) == \A i \in 1..Len(row) : row[i].t = "nan"

\* data[key] = safe_val(row, colname, "") for every key of the mapping.
RawData(headers, row, mapping) ==
    [key \in Fields |-> safe_val(headers, row, mapping[key], EmptyStr)]
\* Whether coercing one of the twelve amounts raises.
NormalizeRaises(raw) ==
    \E i \in 1..Len(NumericKeys) : to_number_call(raw[NumericKeys[i]]).raised
\* The data dictionary of one row: every field read through the mapping,
\* the twelve amounts coerced, the two dates normalised.
BuildData(headers, row, mapping) ==
    LET raw == RawData(headers, row, mapping)
    IN  [key \in Fields |->
            IF \E i \in 1..Len(NumericKeys) : NumericKeys[i] = key
            THEN Num(to_number(raw[key]))
            ELSE IF key \in {"DOB", "DOJ"} THEN normalize_date(raw[key])
            ELSE raw[key]]

\* ecode = str(data.get("Ecode","")).strip() or f"row{idx+4}"
EcodeOf(data, idx) ==
    LET e == Strip(PyStr(data["Ecode"]))
    IN  IF e # <<>> THEN e ELSE <<"r", "o", "w">> \o IntStr(idx + 4)
\* name = str(data.get("EmployeeName","")).strip() or "Unknown"
NameOf(data) ==
    LET n == Strip(PyStr(data["EmployeeName"]))
    IN  IF n # <<>> THEN n ELSE <<"U", "n", "k", "n", "o", "w", "n">>
PdfFilename(data, idx) ==
    <<"P", "a", "y", "s", "l", "i", "p", "_">> \o EcodeOf(data, idx) \o <<"_">>
        \o JoinUnderscore(Words(NameOf(data))) \o <<".", "p", "d", "f">>

\* safe_month: alphanumerics, spaces and underscores kept, spaces then
\* replaced by underscores.
IsAlnum(c) == IsDigit(c) \/ c \in {"A", "B", "a", "b"}
RECURSIVE SafeMonth(_)
SafeMonth(month) ==
    IF month = <<>> THEN <<>>
    ELSE (IF IsAlnum(Head(month)) THEN <<Head(month)>>
          ELSE IF Head(month) \in {" ", "_"} THEN <<"_">>
          ELSE <<>>) \o SafeMonth(Tail(month))

\* ------------------------------------------------------------------------
\* Inputs
\* ------------------------------------------------------------------------
Runs == {"r1", "r2"}

T(s) == Str(s)
HeadersA ==
    <<Hdr("Name"), Hdr("ECODE"), Hdr("Basic"), Hdr("House Rent Allowance"),
      Hdr("EPF"), Hdr("Remarks")>>
RowBlank == <<NaN, NaN, NaN, NaN, NaN, NaN>>
RowAB ==
    <<T(<<"A", " ", "B">>), T(<<"E">>), Num(1004),
      T(<<"1", ",", "2", "3", "4", ".", "5", "0">>), Num(6), NaN>>
RowA_B ==
    <<T(<<"A", "_", "B">>), T(<<" ", "E", " ">>), T(<<"a", "b", "c">>),
      T(<<"2", "0", "0", "0">>), T(<<" ", "1", "2", ".", "5", " ">>), NaN>>
RowNoId == <<NaN, NaN, Num(1000000), NaN, NaN, T(<<"x">>)>>
RowKinds == {RowBlank, RowAB, RowA_B, RowNoId}

\* A table whose second header cell holds a number.
BadHeaderTable ==
    [headers |-> <<Hdr("Name"), NumHdr("2024")>>,
     rows |-> <<<<T(<<"A">>), Num(1000)>>>>]
EmptyTable == [headers |-> HeadersA, rows |-> <<>>]
Tables(n) ==
    {[headers |-> HeadersA, rows |-> rs] :
        rs \in UNION {[1..k -> RowKinds] : k \in 0..n}} \cup {BadHeaderTable}

Present == Str(<<"X">>)
Months == {Str(<<"A", " ", "5">>), Str(<<"A", "_", "5">>), Str(<<"B", "/", "5">>)}
Truthy(val) == val # NoneVal /\ val # EmptyStr

\* The project folder app.py searches, the folder it archives to, another
\* folder a register may lie in, and the mkdtemp folder of each upload.
ProjectDir == "C:/Projects/payslip"
ArchiveFolder == "C:/Projects/payslip/generated_zips"
OtherDir == "D:/registers"
TempDir(r) == IF r = "r1" THEN "tmp1" ELSE "tmp2"

Off ==
    [kind |-> "off", company |-> NoneVal, address |-> NoneVal, month |-> NoneVal,
     location |-> NoneVal, salary |-> FALSE, dir |-> ProjectDir,
     disk |-> "missing", table |-> EmptyTable]

\* What is found where the register is named: nothing, a file pandas cannot
\* read, or a table.  An upload that names a file always leaves one on disk.
Registers(kind, tables) ==
    {[salary |-> TRUE, disk |-> "corrupt", table |-> EmptyTable]}
        \cup {[salary |-> TRUE, disk |-> "ok", table |-> t] : t \in tables}
        \cup {[salary |-> FALSE, disk |-> "missing", table |-> EmptyTable]}
        \cup (IF kind = "cli"
              THEN {[salary |-> TRUE, disk |-> "missing", table |-> EmptyTable]}
              ELSE {})

\* What one request or one command line supplies: the four parameters
\* (None when absent), whether a register is named, where it lies, and what
\* is found there.
InputsOf(kind, months, tables, dirs) ==
    {[kind |-> kind, company |-> c, address |-> a, month |-> m, location |-> l,
      salary |-> f.salary, dir |-> d, disk |-> f.disk, table |-> f.table] :
        c \in {NoneVal, Present}, a \in {NoneVal, Present},
        m \in {NoneVal} \cup months, l \in {NoneVal, Present},
        d \in dirs, f \in Registers(kind, tables)}
InputsOver(months, tables, dirs) ==
    InputsOf("web", months, tables, {ProjectDir})
        \cup InputsOf("cli", months, tables, dirs)

\* ------------------------------------------------------------------------
\* State
\* ------------------------------------------------------------------------
VARIABLES
    now,      \* the wall clock, in seconds: datetime.now() and file times
    fs,       \* the zip files on disk, by path
    input,    \* per run: what the caller supplied
    pc,       \* per run: where the run stands
    pf,       \* per run: the locals of process_file
    latest,   \* per run: latest_zip of generate_payslip
    resp,     \* per run: what the front end answered
    log,      \* per run: the lines logged by the run
    steps,    \* per run: the per-row steps taken, in order
    call      \* one call of to_number or build_col_map on its own

vars == <<now, fs, input, pc, pf, latest, resp, log, steps, call>>

\* A zip path: folder, sanitised month and timestamp of
\* Payslips_<safe_month>_<timestamp>.zip.
ZipPath(dir, safe_month, timestamp) ==
    [dir |-> dir, month |-> safe_month, ts |-> timestamp]
NoPath == [dir |-> "", month |-> <<>>, ts |-> 0]

\* A zip file: the runs that opened or copied onto this path, its entries
\* (name, document, the row it came from, whether the data is whole),
\* whether the central directory has been written (close), its ctime.
NewZip(r, t) == [writers |-> {r}, entries |-> <<>>, sealed |-> FALSE, ctime |-> t]

Put(files, p, f) == [q \in DOMAIN files \cup {p} |-> IF q = p THEN f ELSE files[q]]
Remove(files, p) == [q \in DOMAIN files \ {p} |-> files[q]]

NoResp == [code |-> 0, sent |-> NoPath, sealed |-> FALSE, entries |-> <<>>]
Json(code) == [code |-> code, sent |-> NoPath, sealed |-> FALSE, entries |-> <<>>]

PfInit ==
    [mapping |-> <<>>, zip_name |-> NoPath, opened |-> FALSE, closed |-> FALSE,
     count |-> 0,
     idx |-> 0, data |-> <<>>, name |-> <<>>, pdf_filename |-> <<>>,
     pdf_bytes |-> <<>>, outcome |-> "none"]

Line(lvl, msg, n, s) == [lvl |-> lvl, msg |-> msg, n |-> n, s |-> s]
Logged(r, line) == log' = [log EXCEPT ![r] = Append(@, line)]
\* steps records, for each row the loop reaches, what was done with it and
\* whether that call raised.
Step(r, op, idx, raised) ==
    steps' = [steps EXCEPT ![r] = Append(@, [op |-> op, idx |-> idx, raised |-> raised])]

BaseDir(r) == IF input[r].kind = "web" THEN TempDir(r) ELSE input[r].dir

\* A call of a utility function: the function, its argument (val of
\* to_number, df.columns of build_col_map), whether it has returned, and
\* what it came to.
NoMapping == [key \in Fields |-> NoColumn]
NoCall ==
    [fn |-> "none", val |-> NaN, df_cols |-> <<>>, done |-> TRUE,
     number |-> Returned(0), mapping |-> NoMapping]

InitRuns(inputs) ==
    /\ now = 0
    /\ fs = <<>>
    /\ input \in inputs
    /\ pc = [r \in Runs |-> IF input[r].kind = "off" THEN "done" ELSE "start"]
    /\ pf = [r \in Runs |-> PfInit]
    /\ latest = [r \in Runs |-> NoPath]
    /\ resp = [r \in Runs |-> NoResp]
    /\ log = [r \in Runs |-> <<>>]
    /\ steps = [r \in Runs |-> <<>>]
InitWith(inputs) == InitRuns(inputs) /\ call = NoCall

\* One run, any input.
Init ==
    InitWith({[r \in Runs |-> IF r = "r1" THEN i ELSE Off] :
                 i \in InputsOver(Months, Tables(MaxRows), {ProjectDir, OtherDir})})

\* ------------------------------------------------------------------------
\* The clock
\* ------------------------------------------------------------------------
\* Time passes at any moment; it shows only where a run reads the clock
\* (the timestamp of the archive name, the time of a copy), so the seconds
\* that pass are taken there.
Tick ==
    /\ now < MaxClock
    /\ \E r \in Runs : pc[r] \in {"pf_open", "h_copy"}
    /\ now' = now + 1
    /\ UNCHANGED <<fs, input, pc, pf, latest, resp, log, steps, call>>

\* ------------------------------------------------------------------------
\* process_file
\* ------------------------------------------------------------------------
\* if not os.path.exists(file_path): log, return
PfExists(r) ==
    /\ pc[r] = "pf_exists"
    /\ IF input[r].disk = "missing"
       THEN /\ Logged(r, Line("ERROR", "file not found", 0, <<>>))
            /\ pf' = [pf EXCEPT ![r].outcome = "returned"]
            /\ pc' = [pc EXCEPT ![r] = "ret"]
       ELSE /\ pc' = [pc EXCEPT ![r] = "pf_read"]
            /\ UNCHANGED <<pf, log>>
    /\ UNCHANGED <<now, fs, input, latest, resp, steps, call>>

\* df = pd.read_excel(...); on any exception: log, return
PfReadGoesOn(r) ==
    /\ pc[r] = "pf_read"
    /\ IF input[r].disk = "corrupt"
       THEN Logged(r, Line("ERROR", "error reading excel", 0, <<>>))
       ELSE Logged(r, Line("INFO", "loaded", Len(input[r].table.rows), <<>>))
    /\ pc' = [pc EXCEPT ![r] = "pf_map"]
    /\ UNCHANGED <<now, fs, input, pf, latest, resp, steps, call>>
PfRead(r) ==
    /\ pc[r] = "pf_read"
    /\ IF input[r].disk = "corrupt"
       THEN /\ Logged(r, Line("ERROR", "error reading excel", 0, <<>>))
            /\ pf' = [pf EXCEPT ![r].outcome = "returned"]
            /\ pc' = [pc EXCEPT ![r] = "ret"]
       ELSE /\ Logged(r, Line("INFO", "loaded", Len(input[r].table.rows), <<>>))
            /\ pc' = [pc EXCEPT ![r] = "pf_map"]
            /\ UNCHANGED pf
    /\ UNCHANGED <<now, fs, input, latest, resp, steps, call>>

\* mapping = build_col_map(df); a non-str column label raises out of
\* process_file
PfMap(r) ==
    /\ pc[r] = "pf_map"
    /\ IF find_column_raises(input[r].table.headers)
       THEN /\ pf' = [pf EXCEPT ![r].outcome = "raised"]
            /\ pc' = [pc EXCEPT ![r] = "ret"]
       ELSE /\ pf' = [pf EXCEPT ![r].mapping = build_col_map(input[r].table)]
            /\ pc' = [pc EXCEPT ![r] = "pf_open"]
    /\ UNCHANGED <<now, fs, input, latest, resp, log, steps, call>>

\* zip_name from base_dir, safe_month and the timestamp;
\* zipf = zipfile.ZipFile(zip_name, "w"): the file is created or truncated
PfOpen(r) ==
    /\ pc[r] = "pf_open"
    /\ LET zip_name == ZipPath(BaseDir(r), SafeMonth(PyStr(input[r].month)), now)
           file == IF zip_name \in DOMAIN fs
                   THEN [fs[zip_name] EXCEPT !.writers = @ \cup {r},
                                             !.entries = <<>>, !.sealed = FALSE]
                   ELSE NewZip(r, now)
       IN  /\ fs' = Put(fs, zip_name, file)
           /\ pf' = [pf EXCEPT ![r].zip_name = zip_name, ![r].opened = TRUE,
                               ![r].count = 0, ![r].idx = 0]
    /\ pc' = [pc EXCEPT ![r] = "pf_loop"]
    /\ UNCHANGED <<now, input, latest, resp, log, steps, call>>

\* zipfile.ZipFile(zip_name, "w") raises (the folder cannot be written):
\* nothing catches it
PfOpenRaises(r) ==
    /\ pc[r] = "pf_open"
    /\ pf' = [pf EXCEPT ![r].outcome = "raised"]
    /\ pc' = [pc EXCEPT ![r] = "ret"]
    /\ UNCHANGED <<now, fs, input, latest, resp, log, steps, call>>

\* for idx, row in df.iterrows(): if row.isnull().all(): continue
SameRow(idx) == idx
NextRow(idx) == idx + 1
PfLoop(r) ==
    /\ pc[r] = "pf_loop"
    /\ LET rows == input[r].table.rows
           idx == pf[r].idx
       IN  IF idx >= Len(rows)
           THEN /\ pc' = [pc EXCEPT ![r] = "pf_close"]
                /\ UNCHANGED <<pf, steps>>
           ELSE IF RowIsBlank(rows[idx + 1])
           THEN /\ pf' = [pf EXCEPT ![r].idx = NextRow(idx)]
                /\ Step(r, "skip", idx, FALSE)
                /\ UNCHANGED pc
           ELSE /\ pc' = [pc EXCEPT ![r] = "pf_norm"]
                /\ UNCHANGED <<pf, steps>>
    /\ UNCHANGED <<now, fs, input, latest, resp, log, call>>

\* data built and normalised; ecode, name, pdf_filename.  These lines stand
\* outside the try of the loop: an exception here would leave process_file.
PfNormalize(r) ==
    /\ pc[r] = "pf_norm"
    /\ LET idx == pf[r].idx
           headers == input[r].table.headers
           row == input[r].table.rows[idx + 1]
           data == BuildData(headers, row, pf[r].mapping)
       IN  IF NormalizeRaises(RawData(headers, row, pf[r].mapping))
           THEN /\ pf' = [pf EXCEPT ![r].outcome = "raised"]
                /\ Step(r, "normalize", idx, TRUE)
                /\ pc' = [pc EXCEPT ![r] = "ret"]
           ELSE /\ pf' = [pf EXCEPT ![r].data = data, ![r].name = NameOf(data),
                                    ![r].pdf_filename = PdfFilename(data, idx)]
                /\ Step(r, "normalize", idx, FALSE)
                /\ pc' = [pc EXCEPT ![r] = "pf_draw"]
    /\ UNCHANGED <<now, fs, input, latest, resp, log, call>>

\* except Exception: logger.exception(...); the loop goes on
RowFailed(r) ==
    /\ Logged(r, Line("ERROR", "failed creating payslip", pf[r].idx + 4, pf[r].name))
    /\ pf' = [pf EXCEPT ![r].idx = NextRow(pf[r].idx)]
    /\ pc' = [pc EXCEPT ![r] = "pf_loop"]

\* {"company": company, "address": address, "month": month, "location": location}
HeaderInfo(r) ==
    [company |-> input[r].company, address |-> input[r].address,
     month |-> input[r].month, location |-> input[r].location]

\* pdf_bytes = draw_payslip_to_bytes(header_info, data), which may raise
PfDrawRaises(r) ==
    /\ pc[r] = "pf_draw"
    /\ Step(r, "draw", pf[r].idx, TRUE)
    /\ RowFailed(r)
    /\ UNCHANGED <<now, fs, input, latest, resp, call>>
PfDrawReturns(r) ==
    /\ pc[r] = "pf_draw"
    /\ Step(r, "draw", pf[r].idx, FALSE)
    /\ pf' = [pf EXCEPT ![r].pdf_bytes =
                  draw_payslip_to_bytes(HeaderInfo(r), pf[r].data)]
    /\ pc' = [pc EXCEPT ![r] = "pf_write"]
    /\ UNCHANGED <<now, fs, input, latest, resp, log, call>>

\* zipf.writestr(pdf_filename, pdf_bytes); count += 1; log
\* writestr may raise.  When the header cannot be written the archive is
\* left as it was; when a write of the member's data fails, zipfile closes
\* the member while the exception unwinds and, if that close goes through,
\* has recorded the member, cut short, in the archive's directory.
Entry(r, intact) ==
    [name |-> pf[r].pdf_filename, row |-> pf[r].idx, bytes |-> pf[r].pdf_bytes,
     intact |-> intact]
PfWriteRaises(r) ==
    /\ pc[r] = "pf_write"
    /\ Step(r, "write", pf[r].idx, TRUE)
    /\ RowFailed(r)
    /\ \/ UNCHANGED fs
       \/ fs' = [fs EXCEPT ![pf[r].zip_name].entries = Append(@, Entry(r, FALSE))]
    /\ UNCHANGED <<now, input, latest, resp, call>>
PfWriteReturns(r) ==
    /\ pc[r] = "pf_write"
    /\ Step(r, "write", pf[r].idx, FALSE)
    /\ fs' = [fs EXCEPT ![pf[r].zip_name].entries = Append(@, Entry(r, TRUE))]
    /\ pf' = [pf EXCEPT ![r].count = @ + 1, ![r].idx = NextRow(pf[r].idx)]
    /\ Logged(r, Line("INFO", "added to zip", pf[r].idx + 4, pf[r].pdf_filename))
    /\ pc' = [pc EXCEPT ![r] = "pf_loop"]
    /\ UNCHANGED <<now, input, latest, resp, call>>

\* zipf.close()
PfCloseSkipped(r) ==
    /\ pc[r] = "pf_close"
    /\ pc' = [pc EXCEPT ![r] = "pf_done"]
    /\ UNCHANGED <<now, fs, input, pf, latest, resp, log, steps, call>>
PfClose(r) ==
    /\ pc[r] = "pf_close"
    /\ fs' = [fs EXCEPT ![pf[r].zip_name].sealed = TRUE]
    /\ pf' = [pf EXCEPT ![r].closed = TRUE]
    /\ pc' = [pc EXCEPT ![r] = "pf_done"]
    /\ UNCHANGED <<now, input, latest, resp, log, steps, call>>

\* zipf.close() raises while writing the directory: the handle is closed,
\* the archive stays without its directory, and the exception leaves
\* process_file
PfCloseRaises(r) ==
    /\ pc[r] = "pf_close"
    /\ pf' = [pf EXCEPT ![r].closed = TRUE, ![r].outcome = "raised"]
    /\ pc' = [pc EXCEPT ![r] = "ret"]
    /\ UNCHANGED <<now, fs, input, latest, resp, log, steps, call>>

\* logger.info("Done. Generated {count} payslips ..."); return
PfDone(r) ==
    /\ pc[r] = "pf_done"
    /\ Logged(r, Line("INFO", "done", pf[r].count, <<>>))
    /\ pf' = [pf EXCEPT ![r].outcome = "returned"]
    /\ pc' = [pc EXCEPT ![r] = "ret"]
    /\ UNCHANGED <<now, fs, input, latest, resp, steps, call>>

\* ------------------------------------------------------------------------
\* generate_payslip, the upload handler of app.py
\* ------------------------------------------------------------------------
\* The form is read; a missing field answers 400; otherwise the upload is
\* saved under a fresh temporary folder and process_file is called.
HandlerBegin(r) ==
    /\ pc[r] = "start"
    /\ input[r].kind = "web"
    /\ IF /\ Truthy(input[r].company)
          /\ Truthy(input[r].address)
          /\ Truthy(input[r].month)
          /\ Truthy(input[r].location)
          /\ input[r].salary
       THEN /\ pc' = [pc EXCEPT ![r] = "pf_exists"]
            /\ UNCHANGED resp
       ELSE /\ resp' = [resp EXCEPT ![r] = Json(400)]
            /\ pc' = [pc EXCEPT ![r] = "done"]
    /\ UNCHANGED <<now, fs, input, pf, latest, log, steps, call>>

\* except Exception as gen_err: 500 "Generator error"
HandlerGeneratorError(r) ==
    /\ pc[r] = "ret"
    /\ input[r].kind = "web"
    /\ pf[r].outcome = "raised"
    /\ resp' = [resp EXCEPT ![r] = Json(500)]
    /\ pc' = [pc EXCEPT ![r] = "done"]
    /\ UNCHANGED <<now, fs, input, pf, latest, log, steps, call>>

\* glob(temp_dir/Payslips_*.zip), else glob(project/Payslips_*.zip)
PossibleZips(r) ==
    LET temp == {p \in DOMAIN fs : p.dir = TempDir(r)}
    IN  IF temp # {} THEN temp ELSE {p \in DOMAIN fs : p.dir = ProjectDir}

\* The zip is looked for: none answers 500, else latest_zip is one of the
\* newest by ctime.
HandlerLocate(r) ==
    /\ pc[r] = "ret"
    /\ input[r].kind = "web"
    /\ pf[r].outcome = "returned"
    /\ IF PossibleZips(r) = {}
       THEN /\ resp' = [resp EXCEPT ![r] = Json(500)]
            /\ pc' = [pc EXCEPT ![r] = "done"]
            /\ UNCHANGED latest
       ELSE /\ \E z \in PossibleZips(r) :
                  /\ \A y \in PossibleZips(r) : fs[y].ctime <= fs[z].ctime
                  /\ latest' = [latest EXCEPT ![r] = z]
            /\ pc' = [pc EXCEPT ![r] = "h_copy"]
            /\ UNCHANGED resp
    /\ UNCHANGED <<now, fs, input, pf, log, steps, call>>

\* shutil.copy(latest_zip, generated_zips/basename(latest_zip))
HandlerArchive(r) ==
    /\ pc[r] = "h_copy"
    /\ LET src == fs[latest[r]]
           dst == ZipPath(ArchiveFolder, latest[r].month, latest[r].ts)
           file == [writers |-> (IF dst \in DOMAIN fs THEN fs[dst].writers ELSE {})
                                    \cup {r},
                    entries |-> src.entries, sealed |-> src.sealed, ctime |-> now]
       IN  fs' = Put(fs, dst, file)
    /\ pc' = [pc EXCEPT ![r] = "h_send"]
    /\ UNCHANGED <<now, input, pf, latest, resp, log, steps, call>>

\* response = send_file(latest_zip); the temporary zip is removed; return
HandlerSend(r) ==
    /\ pc[r] = "h_send"
    /\ resp' = [resp EXCEPT ![r] =
                   [code |-> 200, sent |-> latest[r],
                    sealed |-> fs[latest[r]].sealed,
                    entries |-> fs[latest[r]].entries]]
    /\ fs' = IF latest[r].dir = TempDir(r) THEN Remove(fs, latest[r]) ELSE fs
    /\ pc' = [pc EXCEPT ![r] = "done"]
    /\ UNCHANGED <<now, input, pf, latest, log, steps, call>>

\* ------------------------------------------------------------------------
\* main, the command line of payslipGenerator.py
\* ------------------------------------------------------------------------
\* The values come from the arguments or, with none given, from the
\* prompts; either way an empty or absent value is falsy.
\* if not company or not address or not month or not file_path: exit(1)
MainRequired(i) ==
    /\ Truthy(i.company)
    /\ Truthy(i.address)
    /\ Truthy(i.month)
    /\ i.salary

MainBegin(r) ==
    /\ pc[r] = "start"
    /\ input[r].kind = "cli"
    /\ IF MainRequired(input[r])
       THEN /\ pc' = [pc EXCEPT ![r] = "pf_exists"]
            /\ UNCHANGED <<resp, log>>
       ELSE /\ Logged(r, Line("ERROR", "all inputs required", 0, <<>>))
            /\ resp' = [resp EXCEPT ![r] = Json(1)]
            /\ pc' = [pc EXCEPT ![r] = "done"]
    /\ UNCHANGED <<now, fs, input, pf, latest, steps, call>>

\* process_file returned: "Finished" is logged; an exception out of
\* process_file ends the process with a traceback instead.
MainFinish(r) ==
    /\ pc[r] = "ret"
    /\ input[r].kind = "cli"
    /\ IF pf[r].outcome = "returned"
       THEN /\ Logged(r, Line("INFO", "finished", 0, <<>>))
            /\ resp' = [resp EXCEPT ![r] = Json(0)]
       ELSE /\ resp' = [resp EXCEPT ![r] = Json(1)]
            /\ UNCHANGED log
    /\ pc' = [pc EXCEPT ![r] = "done"]
    /\ UNCHANGED <<now, fs, input, pf, latest, steps, call>>

\* ------------------------------------------------------------------------
\* Specification
\* ------------------------------------------------------------------------
Next ==
    \/ Tick
    \/ \E r \in Runs :
          \/ HandlerBegin(r)
          \/ MainBegin(r)
          \/ PfExists(r)
          \/ PfRead(r)
          \/ PfMap(r)
          \/ PfOpen(r)
          \/ PfOpenRaises(r)
          \/ PfLoop(r)
          \/ PfNormalize(r)
          \/ PfDrawRaises(r)
          \/ PfDrawReturns(r)
          \/ PfWriteRaises(r)
          \/ PfWriteReturns(r)
          \/ PfClose(r)
          \/ PfCloseRaises(r)
          \/ PfDone(r)
          \/ HandlerGeneratorError(r)
          \/ HandlerLocate(r)
          \/ HandlerArchive(r)
          \/ HandlerSend(r)
          \/ MainFinish(r)

Spec == Init /\ [][Next]_vars

\* Two runs side by side, web or command line, over the same folders.
ConcTables ==
    {[headers |-> HeadersA, rows |-> <<RowBlank, RowAB>>], BadHeaderTable}
ConcMonths == {Str(<<"A", " ", "5">>), Str(<<"A", "_", "5">>)}
ConcInputs ==
    {i \in InputsOver(ConcMonths, ConcTables, {ProjectDir}) :
        Truthy(i.company) /\ Truthy(i.address)}
InitConc == InitWith([Runs -> ConcInputs])
SpecConc == InitConc /\ [][Next]_vars

\* ------------------------------------------------------------------------
\* to_number and build_col_map called on their own, beside a run over a
\* one-row table made of the same argument
\* ------------------------------------------------------------------------
MaxText == 2
MaxCols == 2

\* Cell texts: digits, point, comma, blank, sign and a letter.
Alphabet == {"1", ".", ",", " ", "-", "a"}
Texts(n) == UNION {[1..k -> Alphabet] : k \in 0..n}
NamedValues ==
    {EmptyStr, Str(<<"1", ",", "2", "3", "4", ".", "5", "0">>),
     Str(<<"1", "2", "3", "4", ".", "5">>), Str(<<"a", "b", "c">>), NoneVal}
NumberValues ==
    NamedValues \cup {Str(s) : s \in Texts(MaxText)}
        \cup {Num(0), Num(1234500), Num(0 - 1500)}

\* Header rows: distinct labels (read_excel renames a repeated label), all
\* of them str.
HeaderPool ==
    {"Name", "NAME", "Employee Name", "ECODE", "E CODE", "ecode", "Epf",
     "BASIC", "Remarks"}
HeaderRows(n) ==
    {[i \in DOMAIN h |-> Hdr(h[i])] :
        h \in {g \in UNION {[1..k -> HeaderPool] : k \in 0..n} :
                  \A i, j \in DOMAIN g : g[i] = g[j] => i = j}}

ToNumberOf(val) == [NoCall EXCEPT !.fn = "to_number", !.val = val, !.done = FALSE]
BuildColMapOf(df_cols) ==
    [NoCall EXCEPT !.fn = "build_col_map", !.df_cols = df_cols, !.done = FALSE]
Calls ==
    {ToNumberOf(v) : v \in NumberValues}
        \cup {BuildColMapOf(h) : h \in HeaderRows(MaxCols)}

\* The one-row table of a call: the value in the Basic column (None is a
\* missing cell once loaded), or a row of "7" under the header row.
TableOf(c) ==
    IF c.fn = "to_number"
    THEN [headers |-> HeadersA,
          rows |-> <<<<T(<<"A">>), T(<<"E">>),
                       IF c.val = NoneVal THEN NaN ELSE c.val, NaN, NaN, NaN>>>>]
    ELSE [headers |-> c.df_cols,
          rows |-> <<[i \in 1..Len(c.df_cols) |-> T(<<"7">>)]>>]
InputsOfCall(c) ==
    {i \in InputsOver({Str(<<"A", "_", "5">>)}, {TableOf(c)}, {ProjectDir}) :
        /\ Truthy(i.company) /\ Truthy(i.address)
        /\ Truthy(i.month) /\ Truthy(i.location)
        /\ i.disk = "ok"}

InitFn ==
    /\ call \in Calls
    /\ InitRuns({[r \in Runs |-> IF r = "r1" THEN i ELSE Off] :
                    i \in InputsOfCall(call)})

ToNumberCall ==
    /\ call.fn = "to_number"
    /\ ~call.done
    /\ call' = [call EXCEPT !.done = TRUE, !.number = to_number_call(call.val)]
    /\ UNCHANGED <<now, fs, input, pc, pf, latest, resp, log, steps>>
BuildColMapCall ==
    /\ call.fn = "build_col_map"
    /\ ~call.done
    /\ call' = [call EXCEPT !.done = TRUE,
                            !.mapping = build_col_map([headers |-> call.df_cols])]
    /\ UNCHANGED <<now, fs, input, pc, pf, latest, resp, log, steps>>

NextFn == Next \/ ToNumberCall \/ BuildColMapCall
SpecFn == InitFn /\ [][NextFn]_vars

\* ------------------------------------------------------------------------
\* Properties
\* ------------------------------------------------------------------------
AllMissing(row) == \A i \in 1..Len(row) : row[i] = NaN
RowsOf(r) == input[r].table.rows
NonBlank(r) == {j \in 0..(Len(RowsOf(r)) - 1) : ~AllMissing(RowsOf(r)[j + 1])}
OnDisk(r) == pf[r].opened /\ pf[r].zip_name \in DOMAIN fs
ArchiveOf(r) == fs[pf[r].zip_name]
EntryRows(r) == {ArchiveOf(r).entries[k].row : k \in 1..Len(ArchiveOf(r).entries)}
RaisedRows(r) == {steps[r][k].idx : k \in {n \in 1..Len(steps[r]) : steps[r][n].raised}}
DrawnRows(r) ==
    {steps[r][k].idx : k \in {n \in 1..Len(steps[r]) : steps[r][n].op = "draw"}}
Inserts(r) ==
    {k \in 1..Len(steps[r]) : steps[r][k].op = "write" /\ ~steps[r][k].raised}
HasLine(r, msg, n) ==
    \E k \in 1..Len(log[r]) : log[r][k].msg = msg /\ log[r][k].n = n
HasError(r) == \E k \in 1..Len(log[r]) : log[r][k].lvl = "ERROR"
Closed(r) == OnDisk(r) => ArchiveOf(r).sealed

\* C1: a row whose rendering or insert raises is caught and logged, adds no
\* entry and no count, the loop goes on past it, the rows after it are still
\* attempted and the archive is closed.
C1_RowFailureAbsorbed ==
    \A r \in Runs : \A j \in RaisedRows(r) :
        /\ pf[r].idx > j
        /\ HasLine(r, "failed creating payslip", j + 4)
        /\ OnDisk(r) => j \notin EntryRows(r)
        /\ pf[r].count = Cardinality(Inserts(r))
        /\ pf[r].outcome # "none" =>
              /\ \A n \in NonBlank(r) : n > j => n \in DrawnRows(r)
              /\ pf[r].closed

\* C2: when the table cannot be loaded, process_file returns before any row:
\* it opens no archive, creates no file, normalises and renders no row, and
\* logs the error.
C2_LoadFailureAborts ==
    \A r \in Runs :
        input[r].disk # "ok" =>
            /\ ~pf[r].opened
            /\ steps[r] = <<>>
            /\ \A p \in DOMAIN fs : p.dir = BaseDir(r) => r \notin fs[p].writers
            /\ pc[r] \notin {"pf_map", "pf_open", "pf_loop", "pf_norm", "pf_draw",
                             "pf_write", "pf_close", "pf_done"}
            /\ pf[r].outcome # "none" => pf[r].outcome = "returned" /\ HasError(r)
C2_Witness ==
    \E r \in Runs :
        /\ input[r].disk = "corrupt"
        /\ pf[r].outcome = "returned"
        /\ HasLine(r, "error reading excel", 0)

\* C3: no archive holds two entries of the same name: any two rows that
\* were both added get different names.
C3_EntryNamesDistinct ==
    \A p \in DOMAIN fs :
        \A i, j \in 1..Len(fs[p].entries) :
            i # j /\ fs[p].entries[i].intact /\ fs[p].entries[j].intact
                => fs[p].entries[i].name # fs[p].entries[j].name

C5_LoadFailureIsSignalled ==
    \A r \in Runs :
        input[r].kind = "web" /\ input[r].disk # "ok" =>
            /\ latest[r] = NoPath
            /\ resp[r].code # 200

\* C6: a row whose every cell is missing is only skipped: it is not
\* normalised, drawn or inserted and leaves the count alone; no row has two
\* entries, and the sealed archive holds one whole entry for each non-blank
\* row whose rendering and insert went through, and for no other row.
WholeRows(r) ==
    {ArchiveOf(r).entries[k].row :
        k \in {n \in 1..Len(ArchiveOf(r).entries) : ArchiveOf(r).entries[n].intact}}
C6_BlankRowsSkipped ==
    \A r \in Runs :
        /\ \A k \in 1..Len(steps[r]) :
              AllMissing(RowsOf(r)[steps[r][k].idx + 1]) <=> steps[r][k].op = "skip"
        /\ pf[r].count = Cardinality(Inserts(r))
        /\ OnDisk(r) =>
              /\ EntryRows(r) \subseteq NonBlank(r)
              /\ Len(ArchiveOf(r).entries) = Cardinality(EntryRows(r))
              /\ ArchiveOf(r).sealed => WholeRows(r) = NonBlank(r) \ RaisedRows(r)
C6_Witness ==
    \E r \in Runs :
        /\ OnDisk(r) /\ ArchiveOf(r).sealed
        /\ WholeRows(r) # {}
        /\ \E j \in 1..Len(RowsOf(r)) : AllMissing(RowsOf(r)[j])
        /\ \E k \in 1..Len(steps[r]) : steps[r][k].op = "skip"

\* C7: rows are taken one at a time in input order: the steps of a row are
\* normalise, draw, insert in that order, the next step belongs to the next
\* row only once the row was skipped, inserted or has failed, no row comes
\* twice, and the entries lie in the order of their rows.
C7_InOrderOnce ==
    \A r \in Runs :
        /\ Len(steps[r]) >= 1 =>
              steps[r][1].idx = 0 /\ steps[r][1].op \in {"skip", "normalize"}
        /\ \A k \in 1..(Len(steps[r]) - 1) :
              LET a == steps[r][k]
                  b == steps[r][k + 1]
              IN  \/ /\ b.idx = a.idx
                     /\ ~a.raised
                     /\ \/ a.op = "normalize" /\ b.op = "draw"
                        \/ a.op = "draw" /\ b.op = "write"
                  \/ /\ b.idx = a.idx + 1
                     /\ a.op = "skip" \/ a.op = "write" \/ a.raised
                     /\ b.op \in {"skip", "normalize"}
        /\ OnDisk(r) =>
              \A i, j \in 1..Len(ArchiveOf(r).entries) :
                  i < j => ArchiveOf(r).entries[i].row < ArchiveOf(r).entries[j].row
C7_Witness ==
    \E r \in Runs :
        /\ pf[r].outcome = "returned"
        /\ OnDisk(r) /\ Len(ArchiveOf(r).entries) >= 2
        /\ Len(steps[r]) >= 6

\* C8: no zip path is written by two runs.
C8_ArchivesDistinct ==
    \A p \in DOMAIN fs : Cardinality(fs[p].writers) <= 1

\* C9: with any of the four parameters absent the front end rejects the
\* request and process_file is not invoked.
C9_AllFourRequired ==
    \A r \in Runs :
        /\ input[r].kind # "off"
        /\ \/ ~Truthy(input[r].company)
           \/ ~Truthy(input[r].address)
           \/ ~Truthy(input[r].month)
           \/ ~Truthy(input[r].location)
        => /\ pc[r] \in {"start", "done"}
           /\ pf[r].outcome = "none"
           /\ pc[r] = "done" => resp[r].code \in {400, 1}

\* C10: the net pay drawn is Gross minus TotalDeductions, formatted, where
\* Gross and TotalDeductions are the sums of the six normalised earnings and
\* of the six normalised deductions, and the two footer rows show these sums.
SixEarnings(d) ==
    d["Basic"].v + d["SpecialAllowance"].v + d["TravelAllowance"].v + d["HRA"].v
        + d["NH_FH"].v + d["Reimbursement"].v
SixDeductions(d) ==
    d["EPF"].v + d["ESI"].v + d["PT"].v + d["TDS"].v + d["Adv_Other"].v
        + d["LabourWelfareFund"].v
C10_NetIsGrossMinusDeductions ==
    \A r \in Runs :
        pc[r] = "pf_write" =>
            LET d == pf[r].data
                doc == pf[r].pdf_bytes
            IN  /\ doc.gross = moneyfmt(SixEarnings(d))
                /\ doc.total_ded = moneyfmt(SixDeductions(d))
                /\ doc.net = moneyfmt(SixEarnings(d) - SixDeductions(d))
C10_Witness ==
    \E r \in Runs :
        /\ pc[r] = "pf_write"
        /\ SixEarnings(pf[r].data) > 0
        /\ SixDeductions(pf[r].data) > 0
        /\ pf[r].pdf_bytes.net # pf[r].pdf_bytes.gross

\* C11: to_number never raises and always returns a number: 0.0 for "", for
\* None and for text that is no number once its commas and its surrounding
\* whitespace are gone, the number so written otherwise; "", "1,234.50",
\* "1234.5", "abc" and None give 0.0, 1234.5, 1234.5, 0.0 and 0.0; and every
\* row that is normalised goes on to be rendered, whatever its amounts hold.
Cleaned(s) == Strip(RemoveCommas(s))
NumberWritten(val) ==
    IF val.t = "num" THEN val.v
    ELSE IF val.t = "str" /\ IsFloatText(Cleaned(val.s)) THEN FloatOf(Cleaned(val.s))
    ELSE 0
NormalizedRowsGoOn(r) ==
    \A k \in 1..Len(steps[r]) :
        steps[r][k].op = "normalize" =>
            /\ ~steps[r][k].raised
            /\ IF k = Len(steps[r]) THEN pc[r] = "pf_draw"
               ELSE /\ steps[r][k + 1].op = "draw"
                    /\ steps[r][k + 1].idx = steps[r][k].idx
C11_ToNumberTotal ==
    /\ (call.fn = "to_number" /\ call.done) =>
          /\ ~call.number.raised
          /\ call.number.v \in Int
          /\ call.number.v = NumberWritten(call.val)
          /\ call.val.t = "str" =>
                call.number = to_number_call(Str(Cleaned(call.val.s)))
          /\ call.val \in {EmptyStr, NoneVal, Str(<<"a", "b", "c">>)} =>
                call.number.v = 0
          /\ call.val \in {Str(<<"1", ",", "2", "3", "4", ".", "5", "0">>),
                           Str(<<"1", "2", "3", "4", ".", "5">>)} =>
                call.number.v = 1234500
    /\ \A r \in Runs :
          /\ NormalizedRowsGoOn(r)
          /\ pc[r] = "pf_draw" =>
                \A i \in 1..Len(NumericKeys) :
                    /\ pf[r].data[NumericKeys[i]].t = "num"
                    /\ pf[r].data[NumericKeys[i]].v \in Int
C11_Witness ==
    /\ call.fn = "to_number"
    /\ call.done
    /\ call.val = Str(<<"a", "b", "c">>)
    /\ call.number = Returned(0)
    /\ \E r \in Runs :
          /\ pc[r] = "pf_write"
          /\ RowsOf(r)[pf[r].idx + 1][3] = Str(<<"a", "b", "c">>)
          /\ pf[r].data["Basic"] = Num(0)

\* C12: build_col_map maps each field to a header of the row that equals,
\* case-insensitively, the first alias of the field's list that any header
\* equals so, and to None when no alias of the list does; a header that is
\* a case variant of an alias therefore resolves the field; the mapping is
\* the same whenever the header row is the same; and a field mapped to None
\* reads as missing in every row of the run.
LowerAliases ==
    [key \in Fields |->
        [c \in DOMAIN COL_CANDIDATES[key] |-> Lower(COL_CANDIDATES[key][c])]]
ResolvedByPriority(df_cols, mapping) ==
    LET low == [i \in DOMAIN df_cols |-> Lower(df_cols[i].name)]
        variants(k) == {df_cols[i].name : i \in {j \in DOMAIN df_cols : low[j] = k}}
    IN  \A key \in Fields :
            LET hits == {c \in DOMAIN LowerAliases[key] :
                            \E i \in DOMAIN df_cols : low[i] = LowerAliases[key][c]}
            IN  IF hits = {} THEN mapping[key] = NoColumn
                ELSE \E c \in hits :
                        /\ \A d \in hits : c <= d
                        /\ mapping[key] \in variants(LowerAliases[key][c])
Missing(key) ==
    IF \E i \in 1..Len(NumericKeys) : NumericKeys[i] = key
    THEN Num(0) ELSE EmptyStr
C12_AliasPriorityResolution ==
    /\ (call.fn = "build_col_map" /\ call.done) =>
          ResolvedByPriority(call.df_cols, call.mapping)
    /\ \A r \in Runs :
          pf[r].mapping # <<>> =>
              /\ pc[r] = "pf_open" =>
                    ResolvedByPriority(input[r].table.headers, pf[r].mapping)
              /\ (call.fn = "build_col_map" /\ call.done
                     /\ call.df_cols = input[r].table.headers)
                    => pf[r].mapping = call.mapping
              /\ pc[r] \in {"pf_draw", "pf_write"} =>
                    \A key \in Fields :
                        pf[r].mapping[key] = NoColumn
                            => pf[r].data[key] = Missing(key)
C12_Witness ==
    /\ call.fn = "build_col_map"
    /\ call.done
    /\ call.df_cols = <<Hdr("NAME"), Hdr("Employee Name")>>
    /\ call.mapping["EmployeeName"] = "Employee Name"
    /\ call.mapping["Ecode"] = NoColumn
    /\ \E r \in Runs :
          /\ pc[r] = "pf_write"
          /\ pf[r].mapping = call.mapping
          /\ pf[r].data["EmployeeName"] = Str(<<"7">>)
          /\ pf[r].data["Ecode"] = EmptyStr
          /\ pf[r].data["Basic"] = Num(0)

\* C13: while process_file runs, count is the number of entries its archive
\* holds, and the count of the "Done" line is the number of entries of the
\* closed archive.
C13_CountIsEntries ==
    \A r \in Runs :
        OnDisk(r) =>
            /\ pc[r] \in {"pf_loop", "pf_norm", "pf_draw", "pf_write", "pf_close",
                          "pf_done"}
                  => pf[r].count = Len(ArchiveOf(r).entries)
            /\ \A k \in 1..Len(log[r]) :
                  log[r][k].msg = "done" /\ ArchiveOf(r).sealed
                      => log[r][k].n = Len(ArchiveOf(r).entries)
====
